---- MODULE Spec2Model ----
(***************************************************************************)
(* Model of the distortion engine of Source/PluginProcessor.h and of the   *)
(* plugin shell that drives it (PluginProcessor.cpp).                      *)
(*                                                                         *)
(* Numbers.  A C++ floating-point value is a record [k, n, d]: k = "fin"   *)
(* is the rational n/d (d > 0, lowest terms), k = "nan", "pinf", "ninf"    *)
(* are the IEEE-754 special values.  double arithmetic is exact rational   *)
(* arithmetic with the IEEE rules for the special values; a float is a     *)
(* value on the grid of multiples of 1/Q, and every float operation rounds *)
(* its exact result to that grid (round to nearest, ties to even).  Zero   *)
(* is unsigned (+0).                                                       *)
(*                                                                         *)
(* Units.  Times are in milliseconds and frequencies in kHz (rad/ms), so   *)
(* that the quantities fit machine integers: every coefficient the         *)
(* bilinear transform produces is a ratio of terms of the same dimension   *)
(* and does not depend on the unit.                                        *)
(***************************************************************************)
EXTENDS Integers, Sequences, FiniteSets, TLC

\* ------------------------------------------------------------ numbers

\* float: the grid step is 1/Q (Q plays the part of 2^23).
Q == 16

Abs(i) == IF i < 0 THEN -i ELSE i

RECURSIVE GCD(_, _)
GCD(a, b) == IF b = 0 THEN a ELSE GCD(b, a % b)

\* The finite value n/d (d # 0), in lowest terms with a positive denominator.
Fin(n, d) ==
    LET s == IF d < 0 THEN -1 ELSE 1
        g == GCD(Abs(n), Abs(d))
    IN  [k |-> "fin", n |-> (s * n) \div g, d |-> Abs(d) \div g]

NaN  == [k |-> "nan",  n |-> 0, d |-> 1]
PInf == [k |-> "pinf", n |-> 0, d |-> 1]
NInf == [k |-> "ninf", n |-> 0, d |-> 1]
Zero == Fin(0, 1)
One  == Fin(1, 1)
Two  == Fin(2, 1)

IsFin(v) == v.k = "fin"
IsNaN(v) == v.k = "nan"
IsInf(v) == v.k \in {"pinf", "ninf"}

\* -1, 0, 1: the sign of a value that is not NaN.
Sgn(v) ==
    CASE v.k = "pinf" -> 1
      [] v.k = "ninf" -> -1
      [] OTHER        -> IF v.n > 0 THEN 1 ELSE IF v.n < 0 THEN -1 ELSE 0

InfOf(s) == IF s > 0 THEN PInf ELSE NInf

Neg(v) ==
    CASE v.k = "nan"  -> NaN
      [] v.k = "pinf" -> NInf
      [] v.k = "ninf" -> PInf
      [] OTHER        -> [k |-> "fin", n |-> -v.n, d |-> v.d]

\* double a + b
DAdd(a, b) ==
    IF IsNaN(a) \/ IsNaN(b) THEN NaN
    ELSE IF IsInf(a) /\ IsInf(b) THEN (IF a.k = b.k THEN a ELSE NaN)
    ELSE IF IsInf(a) THEN a
    ELSE IF IsInf(b) THEN b
    ELSE LET g == GCD(a.d, b.d)
         IN  Fin(a.n * (b.d \div g) + b.n * (a.d \div g), a.d * (b.d \div g))

\* double a - b
DSub(a, b) == DAdd(a, Neg(b))

\* double a * b
DMul(a, b) ==
    IF IsNaN(a) \/ IsNaN(b) THEN NaN
    ELSE IF IsInf(a) \/ IsInf(b)
         THEN (IF Sgn(a) * Sgn(b) = 0 THEN NaN ELSE InfOf(Sgn(a) * Sgn(b)))
    ELSE LET g1 == GCD(Abs(a.n), b.d)
             g2 == GCD(Abs(b.n), a.d)
         IN  Fin((a.n \div g1) * (b.n \div g2), (a.d \div g2) * (b.d \div g1))

\* double a / b
DDiv(a, b) ==
    IF IsNaN(a) \/ IsNaN(b) THEN NaN
    ELSE IF IsInf(a) /\ IsInf(b) THEN NaN
    ELSE IF IsInf(a) THEN (IF Sgn(b) < 0 THEN Neg(a) ELSE a)
    ELSE IF IsInf(b) THEN Zero
    ELSE IF b.n = 0 THEN (IF a.n = 0 THEN NaN ELSE InfOf(Sgn(a)))
    ELSE DMul(a, Fin(b.d, b.n))

\* a > b (false when either is NaN)
Gt(a, b) ==
    /\ ~IsNaN(a)
    /\ ~IsNaN(b)
    /\ a # b
    /\ IF IsInf(a) \/ IsInf(b)
       THEN a.k = "pinf" \/ b.k = "ninf"
       ELSE a.n * b.d > b.n * a.d

\* |a|
FAbs(a) == IF ~IsNaN(a) /\ Sgn(a) < 0 THEN Neg(a) ELSE a

\* <<floor(r * q / d), (r * q) % d>> for 0 <= r < d and q a power of two,
\* by doubling (no product larger than 2 d is formed).
RECURSIVE Scale(_, _, _)
Scale(r, d, q) ==
    IF q = 1 THEN <<0, r>>
    ELSE LET h   == Scale(r, d, q \div 2)
             bit == IF 2 * h[2] >= d THEN 1 ELSE 0
         IN  <<2 * h[1] + bit, 2 * h[2] - bit * d>>

\* v rounded to the nearest multiple of 1/q (q a power of two), ties to
\* even.
ToGrid(v, q) ==
    IF ~IsFin(v) \/ q % v.d = 0 THEN v
    ELSE LET f == Scale(v.n % v.d, v.d, q)
             m == (v.n \div v.d) * q + f[1]
         IN  Fin(IF 2 * f[2] < v.d THEN m
                 ELSE IF 2 * f[2] > v.d THEN m + 1
                 ELSE IF m % 2 = 0 THEN m ELSE m + 1, q)

\* (float) v: the narrowing conversion, to the nearest multiple of 1/Q.
ToFloat(v) == ToGrid(v, Q)

FAdd(a, b) == ToFloat(DAdd(a, b))
FSub(a, b) == ToFloat(DSub(a, b))
FMul(a, b) == ToFloat(DMul(a, b))

\* libm results are kept to multiples of 1/QM.
QM == 256

\* std::tanh(double), at the nearest float to its argument: the rational
\* approximation z(27 + z^2)/(27 + 9 z^2) for |z| < 3, the limit +-1 beyond.
Tanh(v) ==
    IF IsNaN(v) THEN NaN
    ELSE IF IsInf(v) THEN Fin(Sgn(v), 1)
    ELSE LET z  == ToFloat(v)
             zz == DMul(z, z)
         IN  IF ~Gt(Fin(3, 1), FAbs(v)) THEN Fin(Sgn(v), 1)
             ELSE ToGrid(DDiv(DMul(z, DAdd(Fin(27, 1), zz)),
                              DAdd(Fin(27, 1), DMul(Fin(9, 1), zz))), QM)

\* std::atan(float): x/(1 + 0.28 x^2) for |x| <= 1, and
\* sgn(x) pi/2 - x/(x^2 + 0.28) beyond, with the limits +-pi/2.
Atan(v) ==
    LET halfPi == Fin(355, 226)
        c      == Fin(7, 25)
        xx     == DMul(v, v)
    IN  IF IsNaN(v) THEN NaN
        ELSE IF IsInf(v) THEN ToFloat(DMul(Fin(Sgn(v), 1), halfPi))
        ELSE IF ~Gt(FAbs(v), One)
             THEN ToFloat(DDiv(v, DAdd(One, DMul(c, xx))))
             ELSE ToFloat(DSub(DMul(Fin(Sgn(v), 1), halfPi),
                               DDiv(v, DAdd(xx, c))))

\* ------------------------------------------------------------ Biquad

\* A default-constructed Biquad: every member initializer is 0.f.
Biquad ==
    [b0 |-> Zero, b1 |-> Zero, b2 |-> Zero, a1 |-> Zero, a2 |-> Zero,
     x1 |-> Zero, x2 |-> Zero, y1 |-> Zero, y2 |-> Zero]

\* Biquad::processSample(x): the filter after the call; the value returned
\* is its y1.
Biquad_processSample(f, x) ==
    LET y0 == FAdd(FAdd(FMul(x, f.b0), FMul(f.x1, f.b1)), FMul(f.x2, f.b2))
        y  == FSub(y0, FAdd(FMul(f.y1, f.a1), FMul(f.y2, f.a2)))
    IN  [f EXCEPT !.x2 = f.x1, !.x1 = x, !.y2 = f.y1, !.y1 = y]

setCoefficients(f, B0, B1, B2, A1, A2) ==
    [f EXCEPT !.b0 = B0, !.b1 = B1, !.b2 = B2, !.a1 = A1, !.a2 = A2]

\* A reset that clears only the output history (variant for C2).
reset_outputsOnly(f) == [f EXCEPT !.y1 = Zero, !.y2 = Zero]

reset(f) ==
    [f EXCEPT !.x1 = Zero, !.x2 = Zero, !.y1 = Zero, !.y2 = Zero]

\* A default-constructed AnalogParameters.
AnalogParameters ==
    [A |-> Zero, B |-> Zero, C |-> Zero, D |-> Zero, E |-> Zero, F |-> Zero]

\* calculateCoefficients(filter, p, sampleRate): the filter with the
\* coefficients of the bilinear transform of p, divided by a0 and narrowed
\* to float.  The division is not guarded.
a0Of(p, sampleRate) ==
    LET T   == DDiv(One, sampleRate)
        Tsq == DMul(T, T)
    IN  DAdd(DAdd(DDiv(DMul(Fin(4, 1), p.D), Tsq),
                  DDiv(DMul(Two, p.E), T)), p.F)

calculateCoefficients(filter, p, sampleRate) ==
    LET T   == DDiv(One, sampleRate)
        Tsq == DMul(T, T)
        b0  == DAdd(DAdd(DDiv(DMul(Fin(4, 1), p.A), Tsq),
                         DDiv(DMul(Two, p.B), T)), p.C)
        b1  == DSub(DMul(Two, p.C), DDiv(DMul(Fin(8, 1), p.A), Tsq))
        b2  == DSub(DAdd(p.C, DDiv(DMul(Fin(4, 1), p.A), Tsq)),
                    DDiv(DMul(Two, p.B), T))
        a0  == a0Of(p, sampleRate)
        a1  == DSub(DMul(Two, p.F), DDiv(DMul(Fin(8, 1), p.D), Tsq))
        a2  == DSub(DAdd(p.F, DDiv(DMul(Fin(4, 1), p.D), Tsq)),
                    DDiv(DMul(Two, p.E), T))
    IN  setCoefficients(filter,
                        ToFloat(DDiv(b0, a0)), ToFloat(DDiv(b1, a0)),
                        ToFloat(DDiv(b2, a0)),
                        ToFloat(DDiv(a1, a0)), ToFloat(DDiv(a2, a0)))

\* ------------------------------------------------ DistortionProcessor

\* x Hz as a frequency in kHz, x Ohm in kOhm.
Milli(x) == DDiv(x, Fin(1000, 1))

\* A default-constructed DistortionParameters.
DistortionParameters ==
    [gain |-> ToFloat(Fin(1, 2)), tone |-> ToFloat(Fin(1, 2)),
     volume |-> ToFloat(Fin(1, 2))]

bjtGain == ToFloat(Fin(630957, 10000))
aDiode  == ToFloat(Fin(405, 1000))
bDiode  == ToFloat(Fin(3178, 1000))
pi      == ToFloat(Fin(355, 113))

\* A default-constructed DistortionProcessor whose uninitialized member
\* sampleRate holds the value r.
DistortionProcessor(r) ==
    [params |-> DistortionParameters,
     bjt |-> Biquad, opamp |-> Biquad, rc |-> Biquad,
     toneLP |-> Biquad, toneHP |-> Biquad,
     bjtParams |-> AnalogParameters, opampParams |-> AnalogParameters,
     rcParams |-> AnalogParameters, toneLpParams |-> AnalogParameters,
     toneHpParams |-> AnalogParameters,
     sampleRate |-> r]

updateConstFilters(e) ==
    LET w1  == Milli(FMul(FMul(Two, pi), Fin(3, 1)))
        w2  == Milli(FMul(FMul(Two, pi), Fin(600, 1)))
        bjtP == [e.bjtParams EXCEPT !.A = One, !.B = Zero, !.C = Zero,
                                    !.D = One, !.E = DAdd(w1, w2),
                                    !.F = DMul(w1, w2)]
        R     == Fin(22, 10)
        C     == Fin(1, 100)
        rcP   == [e.rcParams EXCEPT !.C = One, !.E = DMul(R, C), !.F = One]
        hpR1  == Fin(22, 10)
        hpR2  == Fin(68, 10)
        lpF   == Milli(Fin(320, 1))
        hpF   == Milli(Fin(1160, 1))
        hpGain == DDiv(hpR2, DAdd(hpR1, hpR2))
        lpP   == [e.toneLpParams EXCEPT
                     !.C = One,
                     !.E = DDiv(One, DMul(FMul(Two, pi), lpF)),
                     !.F = One]
        hpP   == [e.toneHpParams EXCEPT
                     !.B = hpGain, !.E = One,
                     !.F = DMul(FMul(Two, pi), hpF)]
    IN  [e EXCEPT !.bjtParams = bjtP,
                  !.bjt = calculateCoefficients(e.bjt, bjtP, e.sampleRate),
                  !.rcParams = rcP,
                  !.rc = calculateCoefficients(e.rc, rcP, e.sampleRate),
                  !.toneLpParams = lpP,
                  !.toneHpParams = hpP,
                  !.toneLP = calculateCoefficients(e.toneLP, lpP, e.sampleRate),
                  !.toneHP = calculateCoefficients(e.toneHP, hpP, e.sampleRate)]

\* The AnalogParameters updateOpAmpFilter derives from the gain dist.
opampAnalog(p, dist) ==
    LET Rt == DMul(dist, Fin(100, 1))
        Rb == DAdd(DMul(DSub(One, dist), Fin(100, 1)), Fin(47, 10))
        Cz == One
        Cc == Fin(250, 1000000)
        a  == DDiv(One, DMul(Rt, Cc))
        b  == DDiv(One, DMul(Rb, Cz))
        c  == DDiv(One, DMul(Rb, Cc))
    IN  [p EXCEPT !.A = One, !.B = DAdd(DAdd(a, b), c), !.C = DMul(a, b),
                  !.D = One, !.E = DAdd(a, b), !.F = DMul(a, b)]

updateOpAmpFilter(e) ==
    LET p == opampAnalog(e.opampParams, e.params.gain)
    IN  [e EXCEPT !.opampParams = p,
                  !.opamp = calculateCoefficients(e.opamp, p, e.sampleRate)]

\* Each stage maps the pair s = [e: the engine, y: the sample it is given]
\* to the engine after the stage and the sample the stage returns.

processBJT(s) ==
    LET f == Biquad_processSample(s.e.bjt, s.y)
    IN  [e |-> [s.e EXCEPT !.bjt = f], y |-> FMul(bjtGain, f.y1)]

\* The asymmetric soft clip of processOpAmp (double arithmetic, narrowed
\* on assignment to the float y).
softClip(y) ==
    IF Gt(y, Zero)
    THEN ToFloat(DMul(Fin(455, 100), Tanh(DDiv(y, Fin(455, 100)))))
    ELSE ToFloat(DMul(Fin(44, 10), Tanh(DDiv(y, Fin(44, 10)))))

processOpAmp(s) ==
    LET f == Biquad_processSample(s.e.opamp, s.y)
    IN  [e |-> [s.e EXCEPT !.opamp = f], y |-> softClip(f.y1)]

processClipper(s) ==
    LET xClipped == FMul(aDiode, Atan(FMul(s.y, bDiode)))
        f == Biquad_processSample(s.e.rc, xClipped)
    IN  [e |-> [s.e EXCEPT !.rc = f], y |-> f.y1]

\* A cross-fade with the two weights exchanged (variant for C7).
blend_swapped(tone, xLP, xHP) ==
    FAdd(FMul(tone, xLP), FMul(FSub(One, tone), xHP))

\* The cross-fade of processTone.
blend(tone, xLP, xHP) == FAdd(FMul(FSub(One, tone), xLP), FMul(tone, xHP))

\* A tone stage whose high-pass biquad is fed the low-pass output: the two
\* filters cascaded (variant for C8).
processTone_cascaded(s) ==
    LET lp == Biquad_processSample(s.e.toneLP, s.y)
        hp == Biquad_processSample(s.e.toneHP, lp.y1)
    IN  [e |-> [s.e EXCEPT !.toneLP = lp, !.toneHP = hp],
         y |-> blend(s.e.params.tone, lp.y1, hp.y1)]

processTone(s) ==
    LET lp == Biquad_processSample(s.e.toneLP, s.y)
        hp == Biquad_processSample(s.e.toneHP, s.y)
    IN  [e |-> [s.e EXCEPT !.toneLP = lp, !.toneHP = hp],
         y |-> blend(s.e.params.tone, lp.y1, hp.y1)]

\* The last line of processSample: the engine, the value returned (y) and
\* the value the tone stage returned (tone).
outputSample(s) ==
    [e |-> s.e, y |-> FMul(s.y, s.e.params.volume), tone |-> s.y]

\* The value of an expression, bound to a name: the one element of {v}.
The(S) == CHOOSE v \in S : TRUE

\* DistortionProcessor::processSample: s1 to s4 are processedSample after
\* each of the four stages, paired with the engine as the stage left it.
processSample(e, inputsSample) ==
    The({outputSample(s4) :
         s4 \in {processTone(s3) :
         s3 \in {processClipper(s2) :
         s2 \in {processOpAmp(s1) :
         s1 \in {processBJT([e |-> e, y |-> inputsSample])}}}}})

\* The inner loop of processBlock over one channel's samples, in index
\* order from n: the engine, the data written back, and the last value
\* the tone stage returned.
RECURSIVE processChannel(_, _, _, _)
processChannel(e, data, n, tone) ==
    IF n > Len(data) THEN [e |-> e, data |-> data, tone |-> tone]
    ELSE The({processChannel(r.e, [data EXCEPT ![n] = r.y], n + 1, r.tone) :
              r \in {processSample(e, data[n])}})

\* DistortionProcessor::processBlock: every channel of the block, in order
\* from ch, through this one engine.
RECURSIVE processBlock(_, _, _, _)
processBlock(e, block, ch, tone) ==
    IF ch > Len(block) THEN [e |-> e, block |-> block, tone |-> tone]
    ELSE The({processBlock(r.e, [block EXCEPT ![ch] = r.data], ch + 1,
                           r.tone) :
              r \in {processChannel(e, block[ch], 1, tone)}})

setParameters(e, newParams) == [e EXCEPT !.params = newParams]

\* std::numeric_limits<float>::epsilon(): the step from 1 to the next float.
FloatEps == Fin(1, Q)

\* juce::approximatelyEqual(a, b) with its default tolerances: exact
\* comparison unless both are finite; otherwise a difference of at most
\* numeric_limits::min() (below the grid step: a difference of 0) or of at
\* most epsilon * max(|a|, |b|).
approximatelyEqual(a, b) ==
    IF ~(IsFin(a) /\ IsFin(b))
    THEN ~IsNaN(a) /\ ~IsNaN(b) /\ a = b
    ELSE LET diff == FAbs(FSub(a, b))
             m    == IF Gt(FAbs(a), FAbs(b)) THEN FAbs(a) ELSE FAbs(b)
         IN  diff = Zero \/ ~Gt(diff, DMul(FloatEps, m))

\* An update that stores a changed gain without recomputing the op-amp
\* filter (variant for C1).
updateParameters_noRecompute(e, newParams) ==
    LET e1 == IF ~approximatelyEqual(newParams.gain, e.params.gain)
              THEN [e EXCEPT !.params.gain = newParams.gain]
              ELSE e
    IN  [e1 EXCEPT !.params.tone = newParams.tone,
                   !.params.volume = newParams.volume]

\* An update without the comparison: the gain is stored and the op-amp
\* filter recomputed on every call (variant for C4).
updateParameters_noDirtyCheck(e, newParams) ==
    LET e1 == updateOpAmpFilter([e EXCEPT !.params.gain = newParams.gain])
    IN  [e1 EXCEPT !.params.tone = newParams.tone,
                   !.params.volume = newParams.volume]

updateParameters(e, newParams) ==
    LET e1 == IF ~approximatelyEqual(newParams.gain, e.params.gain)
              THEN updateOpAmpFilter([e EXCEPT !.params.gain = newParams.gain])
              ELSE e
    IN  [e1 EXCEPT !.params.tone = newParams.tone,
                   !.params.volume = newParams.volume]

prepare(e, sampleRate_) ==
    LET e1 == [e EXCEPT !.sampleRate = ToFloat(sampleRate_),
                        !.bjt = reset(e.bjt), !.opamp = reset(e.opamp),
                        !.rc = reset(e.rc), !.toneLP = reset(e.toneLP),
                        !.toneHP = reset(e.toneHP)]
    IN  updateOpAmpFilter(updateConstFilters(e1))

\* ------------------------------------------------------------ inputs

\* Samples processed after one prepare.
MaxSamples == 2

\* The values the callers pass (the defaults 0.5 come from construction).
Gains       == {Zero, Fin(15, 16), One}
Tones       == {Zero, One}
Volumes     == {One}
SampleRates == {Zero, Fin(8, 1)}
Samples     == {Zero, One}

\* What the uninitialized member sampleRate may hold.
Indeterminate == {Zero, NaN}

ParameterSets == [gain : Gains, tone : Tones, volume : Volumes]

\* Values of the parameter tree, within the ranges of
\* createParameterLayout, and the host's sample rates (kHz).
ParameterTrees ==
    {[Gain |-> Fin(1, 2),   Tone |-> Fin(1, 2), Volume |-> Fin(1, 2)],
     [Gain |-> Fin(15, 16), Tone |-> Zero,      Volume |-> One],
     [Gain |-> Fin(1, 16),  Tone |-> One,       Volume |-> Fin(1, 2)]}
HostRates == {One, Two}

\* The blocks of numCh channels of numS samples each.
BlocksOf(numCh, numS) == [1..numCh -> [1..numS -> Samples]]

\* The audio blocks of two to n samples in all, of one or two channels.
Blocks(n) ==
    UNION {UNION {BlocksOf(c, k) : k \in {j \in 1..n : c * j \in 2..n}} :
           c \in 1..2}

NumSamples(block) == Len(block) * Len(block[1])

IsSilent(block) == \A c \in 1..Len(block) : \A i \in 1..Len(block[c]) :
                      block[c][i] = Zero

\* ------------------------------------------------------- plugin shell

\* oversampleStages of prepareToPlay, and the factor 2^stages that
\* getOversamplingFactor returns for it.
oversampleStages == 3
OversamplingFactor == 2 ^ oversampleStages

\* getDistortionParameters(apvts): the three raw values, loaded once each.
getDistortionParameters(tree) ==
    [gain |-> tree.Gain, tone |-> tree.Tone, volume |-> tree.Volume]

\* The parameter tree as createParameterLayout leaves it: every default 0.5.
createParameterLayout ==
    [Gain |-> ToFloat(Fin(1, 2)), Tone |-> ToFloat(Fin(1, 2)),
     Volume |-> ToFloat(Fin(1, 2))]

\* prepareToPlay: both engines of the array prepared at the oversampled
\* rate, then both updated with the parameters read from the tree.
prepareToPlay(engines, tree, sampleRate) ==
    LET ovSampleRate == DMul(sampleRate, Fin(OversamplingFactor, 1))
        params       == getDistortionParameters(tree)
    IN  [c \in DOMAIN engines |->
            The({updateParameters(engine, params) :
                 engine \in {prepare(engines[c], ovSampleRate)}})]

\* A channel loop that runs every channel through engine 0 (variant for C5).
RECURSIVE processChannels_oneEngine(_, _, _, _, _)
processChannels_oneEngine(engines, block, params, channel, numCh) ==
    IF channel >= numCh THEN [engines |-> engines, block |-> block]
    ELSE The({processChannels_oneEngine(
                  [engines EXCEPT ![0] = r.e],
                  [block EXCEPT ![channel + 1] = r.block[1]],
                  params, channel + 1, numCh) :
              r \in {processBlock(engine, <<block[channel + 1]>>, 1, Zero) :
                     engine \in {updateParameters(engines[0], params)}}})

\* The channel loop of the plugin's processBlock from channel on: engine
\* number channel is updated with params and then run over its own
\* channel of the oversampled block.
RECURSIVE processChannels(_, _, _, _, _)
processChannels(engines, block, params, channel, numCh) ==
    IF channel >= numCh THEN [engines |-> engines, block |-> block]
    ELSE The({processChannels([engines EXCEPT ![channel] = r.e],
                              [block EXCEPT ![channel + 1] = r.block[1]],
                              params, channel + 1, numCh) :
              r \in {processBlock(engine, <<block[channel + 1]>>, 1, Zero) :
                     engine \in {updateParameters(engines[channel],
                                                  params)}}})

\* DistortionPluginAudioProcessor::processBlock on the oversampled block
\* (the oversampler is a black box): the parameters are read once.
AudioProcessor_processBlock(engines, tree, block, numCh) ==
    processChannels(engines, block, getDistortionParameters(tree), 0, numCh)

\* ------------------------------------------------------------ state

VARIABLES
    distortionProcessor, \* a DistortionProcessor driven through its API
    prepared,            \* prepare has been called on it
    samples,             \* samples it processed since the last prepare
    scenario,            \* how far the calls since the last prepare follow
                         \* prepare, one updateParameters, zero samples
    call,                \* the last call: operation, arguments, results
    apvts,               \* the plugin's parameter tree: raw values
    distortionEngine,    \* the plugin's engines, one per channel (0, 1)
    oversampler,         \* the oversampler exists (prepareToPlay has run)
    totalNumInputChannels,
    frames,              \* samples per channel since the last prepareToPlay
    plug                 \* the plugin's last callback: arguments, results

engineVars == <<distortionProcessor, prepared, samples, scenario, call>>
pluginVars == <<apvts, distortionEngine, oversampler, totalNumInputChannels,
                frames, plug>>
vars == <<engineVars, pluginVars>>

NoBlock == <<>>

Call(op, params, rate, in, out, tone) ==
    [op |-> op, params |-> params, rate |-> rate, in |-> in, out |-> out,
     tone |-> tone]

\* The plugin object after construction: stereo buses, no oversampler, the
\* sampleRate member of each of its three engines uninitialized.
Init ==
    /\ \E r \in Indeterminate :
          /\ distortionProcessor = DistortionProcessor(r)
          /\ distortionEngine = [c \in 0..1 |-> DistortionProcessor(r)]
    /\ prepared = FALSE
    /\ samples = 0
    /\ scenario = "other"
    /\ call = Call("construct", DistortionParameters, Zero, NoBlock, NoBlock,
                   Zero)
    /\ apvts = createParameterLayout
    /\ oversampler = FALSE
    /\ totalNumInputChannels = 2
    /\ frames = 0
    /\ plug = Call("construct", DistortionParameters, Zero, NoBlock, NoBlock,
                   Zero)

Prepare(sampleRate_) ==
    /\ distortionProcessor' = prepare(distortionProcessor, sampleRate_)
    /\ prepared' = TRUE
    /\ samples' = 0
    /\ scenario' = "prepared"
    /\ call' = Call("prepare", DistortionParameters, sampleRate_, NoBlock,
                    NoBlock, Zero)
    /\ UNCHANGED pluginVars

UpdateParameters(newParams) ==
    /\ distortionProcessor' = updateParameters(distortionProcessor, newParams)
    /\ scenario' = IF scenario = "prepared" THEN "updated" ELSE "other"
    /\ call' = Call("updateParameters", newParams, Zero, NoBlock, NoBlock,
                    Zero)
    /\ UNCHANGED <<prepared, samples, pluginVars>>

SetParameters(newParams) ==
    /\ distortionProcessor' = setParameters(distortionProcessor, newParams)
    /\ scenario' = "other"
    /\ call' = Call("setParameters", newParams, Zero, NoBlock, NoBlock, Zero)
    /\ UNCHANGED <<prepared, samples, pluginVars>>

ProcessSample(x) ==
    /\ samples < MaxSamples
    /\ \E r \in {processSample(distortionProcessor, x)} :
           /\ distortionProcessor' = r.e
           /\ call' = Call("processSample", DistortionParameters, Zero,
                           <<<<x>>>>, <<<<r.y>>>>, r.tone)
    /\ samples' = samples + 1
    /\ scenario' = IF scenario \in {"updated", "silence"} /\ x = Zero
                   THEN "silence" ELSE "other"
    /\ UNCHANGED <<prepared, pluginVars>>

ProcessBlock(block) ==
    /\ \E r \in {processBlock(distortionProcessor, block, 1, Zero)} :
           /\ distortionProcessor' = r.e
           /\ call' = Call("processBlock", DistortionParameters, Zero,
                           block, r.block, r.tone)
    /\ samples' = samples + NumSamples(block)
    /\ scenario' = IF scenario \in {"updated", "silence"} /\ IsSilent(block)
                   THEN "silence" ELSE "other"
    /\ UNCHANGED <<prepared, pluginVars>>

\* The public operations of one DistortionProcessor, in any order.
Next ==
    \/ \E r \in SampleRates : Prepare(r)
    \/ \E p \in ParameterSets : UpdateParameters(p)
    \/ \E p \in ParameterSets : SetParameters(p)
    \/ \E x \in Samples : ProcessSample(x)
    \/ \E b \in Blocks(MaxSamples - samples) : ProcessBlock(b)

Spec == Init /\ [][Next]_vars

\* The host negotiates the bus layout (mono or stereo, input = output)
\* before it prepares the plugin.
SetBusesLayout(numCh) ==
    /\ ~oversampler
    /\ totalNumInputChannels' = numCh
    /\ plug' = Call("setBusesLayout", DistortionParameters, Zero, NoBlock,
                    NoBlock, Zero)
    /\ UNCHANGED <<apvts, distortionEngine, oversampler, frames, engineVars>>

\* The host or the editor changes parameter values in the tree.
ParameterChanged(tree) ==
    /\ apvts' = tree
    /\ plug' = Call("parameterChanged", getDistortionParameters(tree), Zero,
                    NoBlock, NoBlock, Zero)
    /\ UNCHANGED <<distortionEngine, oversampler, totalNumInputChannels,
                   frames, engineVars>>

PrepareToPlay(sampleRate) ==
    /\ oversampler' = TRUE
    /\ distortionEngine' = prepareToPlay(distortionEngine, apvts, sampleRate)
    /\ frames' = 0
    /\ plug' = Call("prepareToPlay", getDistortionParameters(apvts),
                    sampleRate, NoBlock, NoBlock, Zero)
    /\ UNCHANGED <<apvts, totalNumInputChannels, engineVars>>

\* processBlock, given the block the oversampler produced from the buffer.
PluginProcessBlock(block) ==
    /\ oversampler
    /\ Len(block) = totalNumInputChannels
    /\ \E r \in {AudioProcessor_processBlock(distortionEngine, apvts, block,
                                                totalNumInputChannels)} :
           /\ distortionEngine' = r.engines
           /\ plug' = Call("processBlock", getDistortionParameters(apvts),
                           Zero, block, r.block, Zero)
    /\ frames' = frames + Len(block[1])
    /\ UNCHANGED <<apvts, oversampler, totalNumInputChannels, engineVars>>

\* The host's calls on the plugin.
NextPlugin ==
    \/ \E n \in 1..2 : SetBusesLayout(n)
    \/ \E t \in ParameterTrees : ParameterChanged(t)
    \/ \E r \in HostRates : PrepareToPlay(r)
    \/ \E n \in 1..(MaxSamples - frames) :
          \E b \in BlocksOf(totalNumInputChannels, n) : PluginProcessBlock(b)

SpecPlugin == Init /\ [][NextPlugin]_vars

\* ------------------------------------------------------------ claims

Filters == {"bjt", "opamp", "rc", "toneLP", "toneHP"}

Coefs(f)   == <<f.b0, f.b1, f.b2, f.a1, f.a2>>
History(f) == <<f.x1, f.x2, f.y1, f.y2>>

UnityCoefs  == <<One, Zero, Zero, Zero, Zero>>
ZeroHistory == <<Zero, Zero, Zero, Zero>>

\* The op-amp coefficients synthesized from a gain and a sample rate.
SynthOpAmp(gain, rate) ==
    Coefs(calculateCoefficients(Biquad, opampAnalog(AnalogParameters, gain),
                                rate))

Processed == call.op \in {"processSample", "processBlock"}

\* C1 as stated: on a prepared engine, updateParameters(new) with a gain
\* that differs from the stored one (tone and volume as stored) makes the
\* op-amp coefficients those synthesized from the new gain and leaves the
\* BJT, RC and tone coefficients as they were.
C1_AnyDifferentGain ==
    [][(/\ prepared
        /\ call'.op = "updateParameters"
        /\ call'.params.gain # distortionProcessor.params.gain
        /\ call'.params.tone = distortionProcessor.params.tone
        /\ call'.params.volume = distortionProcessor.params.volume)
       => /\ Coefs(distortionProcessor'.opamp)
               = SynthOpAmp(call'.params.gain, distortionProcessor.sampleRate)
          /\ \A f \in Filters \ {"opamp"} :
                Coefs(distortionProcessor'[f]) = Coefs(distortionProcessor[f])
      ]_vars

\* C1 amended: the same, for a gain that is not approximately equal to the
\* stored one (it differs by more than the tolerance of the comparison).
C1_GainChangeReactivity ==
    [][(/\ prepared
        /\ call'.op = "updateParameters"
        /\ ~approximatelyEqual(call'.params.gain,
                               distortionProcessor.params.gain)
        /\ call'.params.tone = distortionProcessor.params.tone
        /\ call'.params.volume = distortionProcessor.params.volume)
       => /\ Coefs(distortionProcessor'.opamp)
               = SynthOpAmp(call'.params.gain, distortionProcessor.sampleRate)
          /\ \A f \in Filters \ {"opamp"} :
                Coefs(distortionProcessor'[f]) = Coefs(distortionProcessor[f])
      ]_vars

\* C1 witness: after prepare, one updateParameters call has replaced the
\* default gain and the op-amp coefficients are those of the new gain.
C1_Witness ==
    /\ prepared
    /\ scenario = "updated"
    /\ call.op = "updateParameters"
    /\ distortionProcessor.params.gain = One
    /\ Coefs(distortionProcessor.opamp)
         = SynthOpAmp(One, distortionProcessor.sampleRate)
    /\ Coefs(distortionProcessor.opamp)
         # SynthOpAmp(DistortionParameters.gain, distortionProcessor.sampleRate)

\* C2: prepare is idempotent.  Right after prepare(rate) every history cell
\* is zero and every coefficient set is the one synthesized for the stored
\* rate and gain; a second prepare(rate) gives the same engine, hence the
\* same output for the next input.
C2_PrepareIdempotent ==
    call.op = "prepare" =>
        LET e     == distortionProcessor
            again == prepare(e, call.rate)
        IN  /\ \A f \in Filters : History(e[f]) = ZeroHistory
            /\ Coefs(e.opamp) = SynthOpAmp(e.params.gain, e.sampleRate)
            /\ e.bjt = calculateCoefficients(Biquad, e.bjtParams, e.sampleRate)
            /\ e.rc = calculateCoefficients(Biquad, e.rcParams, e.sampleRate)
            /\ e.toneLP
                 = calculateCoefficients(Biquad, e.toneLpParams, e.sampleRate)
            /\ e.toneHP
                 = calculateCoefficients(Biquad, e.toneHpParams, e.sampleRate)
            /\ again = e
            /\ \A x \in Samples : processSample(again, x).y
                                    = processSample(e, x).y

\* C2 witness: prepare called on an engine that has processed samples and
\* whose gain has been changed.
C2_Witness ==
    /\ call.op = "prepare"
    /\ distortionProcessor.sampleRate = Fin(8, 1)
    /\ distortionProcessor.params.gain = One
    /\ distortionProcessor.bjt.b0 # Zero

\* C3: after prepare with a valid rate and one updateParameters call, zero
\* input gives zero output and leaves every history cell zero.
C3_SilenceInSilenceOut ==
    (scenario = "silence" /\ Gt(distortionProcessor.sampleRate, Zero)) =>
        /\ \A c \in 1..Len(call.out) : \A i \in 1..Len(call.out[c]) :
              call.out[c][i] = Zero
        /\ \A f \in Filters : History(distortionProcessor[f]) = ZeroHistory

\* C4: updateParameters(new) always stores new.tone and new.volume; when
\* new.gain is approximately equal to the stored gain, the stored gain and
\* all five coefficient sets stay as they were, and no history cell changes.
C4_DirtyCheck ==
    [][call'.op = "updateParameters" =>
        /\ distortionProcessor'.params.tone = call'.params.tone
        /\ distortionProcessor'.params.volume = call'.params.volume
        /\ approximatelyEqual(call'.params.gain,
                              distortionProcessor.params.gain)
           => /\ distortionProcessor'.params.gain
                   = distortionProcessor.params.gain
              /\ \A f \in Filters :
                    /\ Coefs(distortionProcessor'[f])
                         = Coefs(distortionProcessor[f])
                    /\ History(distortionProcessor'[f])
                         = History(distortionProcessor[f])
      ]_vars

\* C4 witness: an updateParameters call whose gain was approximately equal
\* to the stored one: tone and volume are the new ones, the gain is not.
C4_Witness ==
    /\ call.op = "updateParameters"
    /\ prepared
    /\ call.params.gain # distortionProcessor.params.gain
    /\ approximatelyEqual(call.params.gain, distortionProcessor.params.gain)
    /\ distortionProcessor.params.tone = call.params.tone
    /\ distortionProcessor.bjt.x1 # Zero

\* C5: in one processBlock call of the plugin every active channel's engine
\* is updated with the one parameter snapshot read from the tree and then
\* run over its own channel's samples in index order; the engine and the
\* output of a channel are those computed from that engine, the snapshot
\* and that channel alone, and an engine without a channel is unchanged.
C5_ChannelIndependence ==
    [][plug'.op = "processBlock" =>
        LET params == getDistortionParameters(apvts)
        IN  \A c \in DOMAIN distortionEngine :
               IF c < totalNumInputChannels
               THEN \E r \in {processChannel(
                                  updateParameters(distortionEngine[c], params),
                                  plug'.in[c + 1], 1, Zero)} :
                       /\ distortionEngine'[c] = r.e
                       /\ plug'.out[c + 1] = r.data
                       /\ distortionEngine'[c].params = params
                       /\ distortionEngine'[c].bjt.x1
                            = plug'.in[c + 1][Len(plug'.in[c + 1])]
               ELSE distortionEngine'[c] = distortionEngine[c]
      ]_vars

\* C5 witness: a stereo block whose two channels differ has been processed
\* with parameters changed since prepareToPlay, and the two engines hold
\* different histories and the same parameters.
C5_Witness ==
    /\ plug.op = "processBlock"
    /\ totalNumInputChannels = 2
    /\ plug.in[1] # plug.in[2]
    /\ plug.out[1] # plug.out[2]
    /\ apvts # createParameterLayout
    /\ distortionEngine[0].params = getDistortionParameters(apvts)
    /\ distortionEngine[1].params = distortionEngine[0].params
    /\ History(distortionEngine[0].bjt) # History(distortionEngine[1].bjt)
    /\ \A i \in 1..Len(plug.out[1]) : IsFin(plug.out[1][i])

StageParams(e, f) ==
    CASE f = "bjt"    -> e.bjtParams
      [] f = "opamp"  -> e.opampParams
      [] f = "rc"     -> e.rcParams
      [] f = "toneLP" -> e.toneLpParams
      [] f = "toneHP" -> e.toneHpParams

\* C6: when a0 is zero or not finite the biquad is a unity pass-through,
\* and no NaN or infinity is ever in a coefficient or a history cell.
C6_SafePassThrough ==
    prepared =>
        \A f \in Filters :
            LET a0 == a0Of(StageParams(distortionProcessor, f),
                           distortionProcessor.sampleRate)
                b  == distortionProcessor[f]
            IN  /\ (a0 = Zero \/ ~IsFin(a0)) => Coefs(b) = UnityCoefs
                /\ \A i \in 1..5 : IsFin(Coefs(b)[i])
                /\ \A i \in 1..4 : IsFin(History(b)[i])

\* C7: with the stored tone 0 the tone stage returns the output of the
\* tone-low biquad, with the stored tone 1 that of the tone-high biquad.
C7_ToneBlendBoundary ==
    (Processed /\ NumSamples(call.in) > 0) =>
        /\ distortionProcessor.params.tone = Zero
           => call.tone = distortionProcessor.toneLP.y1
        /\ distortionProcessor.params.tone = One
           => call.tone = distortionProcessor.toneHP.y1

\* C7 witness: a sample processed with tone 0 whose two branch outputs
\* differ.
C7_Witness ==
    /\ call.op = "processSample"
    /\ prepared
    /\ distortionProcessor.params.tone = Zero
    /\ distortionProcessor.toneLP.y1 # distortionProcessor.toneHP.y1
    /\ call.tone = distortionProcessor.toneLP.y1
    /\ IsFin(call.tone)

\* The value a biquad returns for its last input, from its coefficients and
\* the history it had before that input.
LastOutput(before, after) ==
    FSub(FAdd(FAdd(FMul(after.x1, before.b0), FMul(before.x1, before.b1)),
              FMul(before.x2, before.b2)),
         FAdd(FMul(before.y1, before.a1), FMul(before.y2, before.a2)))

\* C8: one processSample call advances each of the five biquads exactly
\* once: the BJT biquad takes the input, the op-amp biquad the BJT output
\* times the fixed gain, the RC biquad the diode-shaped soft-clipped op-amp
\* output, the tone-low and the tone-high biquad both the RC output; the
\* value returned is the cross-fade of the two tone outputs times volume.
C8_Pipeline ==
    [][call'.op = "processSample" =>
        LET e == distortionProcessor
            n == distortionProcessor'
        IN  /\ \A f \in Filters :
                  /\ n[f].x2 = e[f].x1
                  /\ n[f].y2 = e[f].y1
                  /\ n[f].y1 = LastOutput(e[f], n[f])
                  /\ Coefs(n[f]) = Coefs(e[f])
            /\ n.bjt.x1 = call'.in[1][1]
            /\ n.opamp.x1 = FMul(bjtGain, n.bjt.y1)
            /\ n.rc.x1 = FMul(aDiode, Atan(FMul(softClip(n.opamp.y1), bDiode)))
            /\ n.toneLP.x1 = n.rc.y1
            /\ n.toneHP.x1 = n.rc.y1
            /\ call'.out[1][1]
                 = FMul(blend(e.params.tone, n.toneLP.y1, n.toneHP.y1),
                        e.params.volume)
      ]_vars

\* C8 witness: a second sample has gone through a prepared engine, and the
\* two tone biquads hold the same nonzero RC output as their last input.
C8_Witness ==
    /\ call.op = "processSample"
    /\ prepared
    /\ samples = 2
    /\ distortionProcessor.bjt.x2 # Zero
    /\ distortionProcessor.rc.y1 # Zero
    /\ distortionProcessor.toneLP.x1 = distortionProcessor.rc.y1
    /\ distortionProcessor.toneHP.x1 = distortionProcessor.rc.y1
    /\ distortionProcessor.toneLP.y1 # distortionProcessor.rc.y1
    /\ IsFin(call.out[1][1])
    /\ call.out[1][1] # Zero

\* C9: before prepare every biquad is a unity pass-through, so the BJT
\* biquad, the first to see a sample, returns the sample it was given.
C9_DefaultPassThrough ==
    (~prepared /\ call.op = "processSample") =>
        /\ \A f \in Filters \ {"opamp"} :
              Coefs(distortionProcessor[f]) = UnityCoefs
        /\ distortionProcessor.bjt.y1 = call.in[1][1]

\* C10: once prepared, the op-amp coefficients are always those
\* synthesized from the stored gain and the stored sample rate.
C10_GainCoefficientConsistency ==
    prepared =>
        Coefs(distortionProcessor.opamp)
          = SynthOpAmp(distortionProcessor.params.gain,
                       distortionProcessor.sampleRate)

====
